---- MODULE Spec2Model ----
(***************************************************************************)
(* Model of drivers/net/can/spi/mcp2515.c: the asynchronous SPI            *)
(* transaction scheduler of the MCP2515 CAN controller driver, its three   *)
(* transmit slots, its wake sources (interrupt tasklet, fallback timer,    *)
(* ndo_start_xmit) and its completion callbacks.                           *)
(*                                                                         *)
(* One action per handler.  The driver's spinlock sections are short       *)
(* check-and-set sequences, so a handler is one atomic step; the SPI       *)
(* transport and the chip are the environment: an exchange is submitted by *)
(* a handler and completed by a later step that applies the instruction to *)
(* the chip's registers and runs the completion callback.                  *)
(*                                                                         *)
(* Bit maps (tx_busy_map, tx_pending_map, CANINTF, EFLG) are sets of bit   *)
(* numbers; Val gives the integer the C code compares.                     *)
(*                                                                         *)
(* What the surroundings of the driver do over a run (other nodes sending  *)
(* on the bus, the transport rejecting a message, allocation failing, the  *)
(* interface being closed and opened again) is fixed by env when the run   *)
(* starts; Environments lists the combinations that are explored.          *)
(*                                                                         *)
(* Three parts are also run by themselves: SpecCodec, the frame encoder    *)
(* and decoder on bytes; SpecRace, mcp2515_start_xmit against              *)
(* mcp2515_clear_canintf_complete one load and one store at a time; and    *)
(* SpecStart, mcp2515_chip_start one register transfer at a time.          *)
(* SpecLive is the scheduler over a transport that completes every         *)
(* exchange, for what happens in the end.                                  *)
(***************************************************************************)
EXTENDS Integers, FiniteSets, Sequences, TLC

(* ---------------------------------------------------------------- bounds *)
\* alloc_can_skb failures over a run
MaxAllocFail == 1
\* receive overruns counted over a run
MaxOvr == 1
\* cap of the skip counter of the fallback timer
MaxSkip == 1
\* payload patterns of the frames given to the codec: 0 .. MaxSeed
MaxSeed == 2

(* ------------------------------------------------------------- constants *)
MCP2515_TX_CNT == 3
TX_MAP_BUSY == 2^MCP2515_TX_CNT - 1

CANINTF_RX0IF == 0
CANINTF_RX1IF == 1
CANINTF_TX0IF == 2
CANINTF_TX1IF == 3
CANINTF_TX2IF == 4
CANINTF_ERRIF == 5
EFLG_RX0OVR == 6
EFLG_RX1OVR == 7

RXBSIDL_IDE == 8
RXBSIDL_SRR == 16
RXBDLC_RTR == 64

CANCTRL_REQOP_NORMAL == 0
CANCTRL_REQOP_SLEEP == 32
CANCTRL_REQOP_LOOPBACK == 64
CANCTRL_REQOP_LISTEN_ONLY == 96
CANCTRL_REQOP_CONF == 128
CANCTRL_REQOP_MASK == 224
CANCTRL_OSM == 8
\* the control-mode flags of linux/can/netlink.h that the driver supports
CAN_CTRLMODE_LOOPBACK == 1
CAN_CTRLMODE_LISTENONLY == 2
CAN_CTRLMODE_3_SAMPLES == 4
CAN_CTRLMODE_ONE_SHOT == 8

NULL == 0
\* a frame handed to ndo_start_xmit: any pointer that is not NULL
SKB == 1
Slots == 0 .. (MCP2515_TX_CNT - 1)

RECURSIVE Val(_)
Val(S) == IF S = {} THEN 0
          ELSE LET b == CHOOSE x \in S : TRUE IN 2^b + Val(S \ {b})

Min(S) == CHOOSE x \in S : \A y \in S : x <= y

VARIABLES
  \* struct mcp2515_priv
  busy, interrupt, netif_queue_stopped, loaded_txb, tx_busy_map,
  tx_pending_map, skb, canintf, eflg, extra, skip,
  \* priv->message and the SPI transport
  complete, outstanding, sub_err,
  \* kernel objects: timer, tasklet, irq line, netdev queue, netdev stats
  timer_pending, tasklet_sched, dev_up, queue_xoff,
  rx_dropped, rx_over_errors,
  \* the chip
  hw_canintf, hw_eflg, hw_txreq,
  \* observation of the run
  tx_unacked, nload, nrts, extra_cycle, owed, fault,
  \* the frames in the slots: can_dlc of the frame of each slot, the bytes
  \* of the frames taken less stats.tx_bytes, and the Pending slots in the
  \* order in which mcp2515_start_xmit took their frames
  can_dlc, bytes_unacked, accept_order,
  \* what the surroundings do in this run
  env,
  \* the frame codec taken by itself: a frame, its transmit buffer bytes and
  \* the frame decoded from them
  codec,
  \* mcp2515_start_xmit and mcp2515_clear_canintf_complete taken by
  \* themselves, one load or store at a time: where each of the two is, the
  \* value each has loaded, and who holds priv->lock
  race,
  \* mcp2515_chip_start taken by itself: how far it is, the control-mode
  \* flags it was called with, the mode it wrote, and the chip's CANCTRL
  start

priv_vars == <<busy, interrupt, netif_queue_stopped, loaded_txb, tx_busy_map,
               tx_pending_map, skb, canintf, eflg, extra, skip>>
spi_vars == <<complete, outstanding, sub_err>>
kernel_vars == <<timer_pending, tasklet_sched, dev_up, queue_xoff,
                 rx_dropped, rx_over_errors>>
hw_vars == <<hw_canintf, hw_eflg, hw_txreq>>
obs_vars == <<tx_unacked, nload, nrts, extra_cycle, owed, fault>>
frame_vars == <<can_dlc, bytes_unacked, accept_order>>
\* parts of the driver that are run by themselves, in specifications of
\* their own
part_vars == <<codec, race, start>>
vars == <<priv_vars, spi_vars, kernel_vars, hw_vars, obs_vars, frame_vars,
          env, part_vars>>

(* The surroundings of one run: tx, the stack hands frames to the driver;   *)
(* rx, other nodes send frames; ovr, they send while both receive buffers   *)
(* are full; oom, alloc_can_skb can fail; lossy, spi_async can reject a     *)
(* message; reopen, the interface is closed and opened again; dlcs, the     *)
(* can_dlc of the frames the stack sends.                                   *)
Environment(tx, rx, ovr, oom, lossy, reopen, dlcs) ==
  [tx |-> tx, rx |-> rx, ovr |-> ovr, oom |-> oom, lossy |-> lossy,
   reopen |-> reopen, dlcs |-> dlcs]

\* a sending node alone on the bus, a listening node, a node that sends and
\* receives, and a node that sends frames of several lengths
Environments ==
  { Environment(TRUE, FALSE, FALSE, FALSE, TRUE, TRUE, {8}),
    Environment(FALSE, TRUE, TRUE, TRUE, TRUE, TRUE, {8}),
    Environment(TRUE, TRUE, FALSE, FALSE, TRUE, FALSE, {8}),
    Environment(TRUE, FALSE, FALSE, FALSE, FALSE, FALSE, {1, 8}) }

(* The state after mcp2515_probe: alloc_candev zeroes the private data, the *)
(* timer and the tasklet are set up but neither is pending, the device is   *)
(* registered and down.                                                     *)
probed ==
  /\ busy = 0 /\ interrupt = 0 /\ netif_queue_stopped = 0
  /\ loaded_txb = 0 /\ tx_busy_map = {} /\ tx_pending_map = {}
  /\ skb = [i \in Slots |-> NULL]
  /\ canintf = {} /\ eflg = {} /\ extra = 0 /\ skip = 0
  /\ complete = "none" /\ outstanding = 0 /\ sub_err = FALSE
  /\ timer_pending = FALSE /\ tasklet_sched = FALSE
  /\ dev_up = FALSE /\ queue_xoff = FALSE
  /\ rx_dropped = 0 /\ rx_over_errors = 0
  /\ hw_canintf = {} /\ hw_eflg = {} /\ hw_txreq = {}
  /\ tx_unacked = 0
  /\ nload = [i \in Slots |-> 0] /\ nrts = [i \in Slots |-> 0]
  /\ extra_cycle = FALSE
  /\ owed = FALSE /\ fault = "none"
  /\ can_dlc = [i \in Slots |-> 0] /\ bytes_unacked = 0
  /\ accept_order = <<>>

\* a part that is not run
PartOff == [stage |-> "off"]

Init ==
  /\ probed
  /\ env \in Environments
  /\ codec = PartOff /\ race = PartOff /\ start = PartOff


(* ------------------------------------------------- the SPI transport ---- *)
(* spi_async(&priv->message) with message.complete = cb, called by a        *)
(* handler that leaves `base` exchanges outstanding.  ok is the transport's *)
(* answer: a rejected message is logged and never completes.                *)
\* the answers spi_async can give
spi_answers == IF env.lossy THEN BOOLEAN ELSE {TRUE}

spi_async(base, cb, ok) ==
  /\ complete' = cb
  /\ outstanding' = IF ok THEN base + 1 ELSE base
  /\ sub_err' = ~ok

\* a handler that returns without calling spi_async
no_spi_async(base) ==
  /\ outstanding' = base
  /\ UNCHANGED <<complete, sub_err>>

\* mcp2515_read_flags: the ReadStatus exchange
mcp2515_read_flags(base, ok) ==
  /\ spi_async(base, "read_flags", ok)

\* observation: a ReadStatus accepted by the transport honours the interrupts
\* that arrived while busy
owed_after_read(ok) == IF ok THEN FALSE ELSE owed

\* observation of one busy period, from busy 0 -> 1 to Idle: it starts anew
\* at both ends
new_busy_period ==
  /\ extra_cycle' = FALSE /\ owed' = FALSE

(* ------------------------------------------------- the transmit ring ---- *)
\* the for loop of mcp2515_start_xmit: the first free slot, or
\* MCP2515_TX_CNT when the loop runs to its end
find_free_slot(map) ==
  IF Slots \ map = {} THEN MCP2515_TX_CNT ELSE Min(Slots \ map)

\* a loop that runs from the top: the highest pending slot
find_pending_from_top(map) ==
  IF Slots \cap map = {} THEN MCP2515_TX_CNT
  ELSE CHOOSE x \in Slots \cap map : \A y \in Slots \cap map : y <= x

\* the for loop over tx_pending_map: the lowest pending slot, or
\* MCP2515_TX_CNT when the loop runs to its end
find_pending_slot(map) ==
  IF Slots \cap map = {} THEN MCP2515_TX_CNT ELSE Min(Slots \cap map)

\* a dequeue that leaves the Pending bit set
dequeue_keeps_bit(map, id) == map

\* priv->tx_pending_map &= ~BIT(tx_idx)
dequeue(map, id) == map \ {id}

\* the comparison off by one: a full ring does not stop the queue
ring_full_off_by_one(map) == Val(map) > TX_MAP_BUSY

\* if (priv->tx_busy_map >= TX_MAP_BUSY)
tx_ring_full(map) == Val(map) >= TX_MAP_BUSY

\* mcp2515_load_txb(skb, dev, abc): the LoadTxSlot exchange.  A NULL skb is
\* dereferenced by mcp2515_set_txbuf.
mcp2515_load_txb(base, nl, abc, ok) ==
  /\ loaded_txb' = abc
  /\ nload' = [nl EXCEPT ![abc] = @ + 1]
  /\ spi_async(base, "load_txb", ok)

\* observation: the per-slot counts start anew with a slot's next frame
reset_slots(n, done) == [i \in Slots |-> IF i \in done THEN 0 ELSE n[i]]

(* ---------------------------------------------------- wake sources ------ *)
\* a tasklet that goes on without looking at busy
softirq_ignores_busy == FALSE

\* if (priv->busy) in the tasklet
softirq_sees_busy == busy = 1

\* a tasklet that returns without marking the interrupt
softirq_forgets(irq) == irq

\* priv->interrupt = 1
softirq_marks(irq) == 1

mcp2515_softirq_handler ==
  /\ UNCHANGED <<env, frame_vars, part_vars>>
  /\ fault = "none" /\ tasklet_sched
  /\ tasklet_sched' = FALSE
  /\ IF softirq_sees_busy
       THEN /\ interrupt' = softirq_marks(interrupt)
            /\ owed' = TRUE
            /\ no_spi_async(outstanding)
            /\ UNCHANGED <<busy, extra_cycle>>
       ELSE /\ busy' = 1
            /\ new_busy_period
            /\ \E ok \in spi_answers : mcp2515_read_flags(outstanding, ok)
            /\ UNCHANGED interrupt
  /\ UNCHANGED <<netif_queue_stopped, loaded_txb, tx_busy_map, tx_pending_map,
                 skb, canintf, eflg, extra, skip, hw_vars,
                 timer_pending, dev_up, queue_xoff,
                 rx_dropped, rx_over_errors,
                 tx_unacked, nload, nrts, fault>>

\* a timer callback that goes on without looking at busy
timer_ignores_busy == FALSE

\* if (priv->busy) in the timer callback
timer_sees_busy == busy = 1

read_flags_timer_cb ==
  /\ UNCHANGED <<env, frame_vars, part_vars>>
  /\ fault = "none" /\ timer_pending
  /\ timer_pending' = FALSE
  /\ IF timer_sees_busy
       THEN /\ skip < MaxSkip
            /\ skip' = skip + 1
            /\ no_spi_async(outstanding)
            /\ UNCHANGED <<busy, extra, extra_cycle, owed>>
       ELSE /\ busy' = 1
            /\ skip' = 0
            /\ extra' = 1
            /\ new_busy_period
            /\ \E ok \in spi_answers : mcp2515_read_flags(outstanding, ok)
  /\ UNCHANGED <<interrupt, netif_queue_stopped, loaded_txb, tx_busy_map,
                 tx_pending_map, skb, canintf, eflg, hw_vars,
                 tasklet_sched, dev_up, queue_xoff,
                 rx_dropped, rx_over_errors,
                 tx_unacked, nload, nrts, fault>>

\* a start_xmit that loads its frame without looking at busy
xmit_ignores_busy == FALSE

\* if (priv->busy) in mcp2515_start_xmit
xmit_sees_busy == busy = 1

(* ndo_start_xmit: the stack calls it while the device is up and its queue  *)
(* is not stopped, and no path of the driver refuses the frame.  With no    *)
(* free slot the loop leaves tx_idx = MCP2515_TX_CNT and priv->skb[tx_idx]  *)
(* is a store behind the array, onto priv->lock and the words after it:     *)
(* what the handler does from that store on is not defined, and the run     *)
(* ends there with the fault recorded.                                      *)
mcp2515_start_xmit ==
  /\ UNCHANGED <<env, part_vars>>
  /\ fault = "none" /\ dev_up /\ ~queue_xoff /\ env.tx
  /\ LET tx_idx == find_free_slot(tx_busy_map)
         map1 == IF tx_idx < MCP2515_TX_CNT THEN tx_busy_map \cup {tx_idx}
                 ELSE tx_busy_map
     IN /\ tx_busy_map' = map1
        /\ IF tx_ring_full(map1)
             THEN netif_queue_stopped' = 1 /\ queue_xoff' = TRUE
             ELSE UNCHANGED <<netif_queue_stopped, queue_xoff>>
        /\ tx_unacked' = tx_unacked + 1
        /\ \E dlc \in env.dlcs :
             /\ bytes_unacked' = bytes_unacked + dlc
             /\ can_dlc' = IF tx_idx < MCP2515_TX_CNT
                             THEN [can_dlc EXCEPT ![tx_idx] = dlc]
                             ELSE can_dlc
        /\ IF tx_idx >= MCP2515_TX_CNT
             THEN /\ fault' = "oob"
                  /\ UNCHANGED <<skb, tx_pending_map, busy, loaded_txb,
                                 nload, nrts, spi_vars, extra_cycle, owed,
                                 accept_order>>
           ELSE IF xmit_sees_busy
             THEN /\ skb' = [skb EXCEPT ![tx_idx] = SKB]
                  /\ tx_pending_map' = tx_pending_map \cup {tx_idx}
                  /\ accept_order' = Append(accept_order, tx_idx)
                  /\ nload' = [nload EXCEPT ![tx_idx] = 0]
                  /\ nrts' = [nrts EXCEPT ![tx_idx] = 0]
                  /\ no_spi_async(outstanding)
                  /\ UNCHANGED <<busy, loaded_txb, extra_cycle, owed, fault>>
             ELSE /\ skb' = [skb EXCEPT ![tx_idx] = SKB]
                  /\ busy' = 1
                  /\ new_busy_period
                  /\ nrts' = [nrts EXCEPT ![tx_idx] = 0]
                  /\ \E ok \in spi_answers :
                       mcp2515_load_txb(outstanding,
                                        [nload EXCEPT ![tx_idx] = 0], tx_idx, ok)
                  /\ UNCHANGED <<tx_pending_map, fault, accept_order>>
  /\ UNCHANGED <<interrupt, canintf, eflg, extra, skip, hw_vars,
                 timer_pending, tasklet_sched, dev_up,
                 rx_dropped, rx_over_errors>>

(* ------------------------------------------------ the status decoder ---- *)
\* the chain with two tests swapped: a pending slot is served before the
\* transmit and error flags are acknowledged
pending_before_status(intf, pending, irq) ==
  IF CANINTF_RX0IF \in intf THEN "read_rxb0"
  ELSE IF CANINTF_RX1IF \in intf THEN "read_rxb1"
  ELSE IF pending # {} THEN "load_txb"
  ELSE IF intf # {} THEN "clear_canintf"
  ELSE IF irq = 1 THEN "read_flags"
  ELSE "idle"

\* the chain without its test of priv->interrupt
idle_ignores_deferred(intf, pending, irq) ==
  IF CANINTF_RX0IF \in intf THEN "read_rxb0"
  ELSE IF CANINTF_RX1IF \in intf THEN "read_rxb1"
  ELSE IF intf # {} THEN "clear_canintf"
  ELSE IF pending # {} THEN "load_txb"
  ELSE "idle"

\* the if / else-if chain of mcp2515_read_flags_complete over the CANINTF
\* byte just read, the pending map and the deferred-interrupt flag
read_flags_next(intf, pending, irq) ==
  IF CANINTF_RX0IF \in intf THEN "read_rxb0"
  ELSE IF CANINTF_RX1IF \in intf THEN "read_rxb1"
  ELSE IF intf # {} THEN "clear_canintf"
  ELSE IF pending # {} THEN "load_txb"
  ELSE IF irq = 1 THEN "read_flags"
  ELSE "idle"

\* a decision after a receive buffer read that leaves the pending slots to
\* the next status read
status_after_receive(pending) == "read_flags"

\* mcp2515_transmit_or_read_flags: the decision after a receive buffer read
transmit_or_read_flags_next(pending) ==
  IF pending # {} THEN "load_txb" ELSE "read_flags"

\* buffer 0 read, buffer 1 left for the next status read
read_rxb0_leaves_rxb1(intf, pending) == transmit_or_read_flags_next(pending)

\* mcp2515_read_rxb0_complete: RXB1 next when the snapshot has RX1IF
read_rxb0_next(intf, pending) ==
  IF CANINTF_RX1IF \in intf THEN "read_rxb1"
  ELSE transmit_or_read_flags_next(pending)

\* callers that stop when the frame could not be allocated
caller_returns_on_failure(alloc_ok) == alloc_ok

\* mcp2515_read_rxb_complete returns early when alloc_can_skb fails; its
\* callers go on to their next exchange either way
read_rxb_caller_continues(alloc_ok) == TRUE

\* CANINTF_TXnIF of slot n
TXnIF(n) == CANINTF_TX0IF + n

\* the transmit-complete bits read one slot too high
tx_done_shifted(intf) ==
  {n \in Slots : TXnIF((n + 1) % MCP2515_TX_CNT) \in intf}

\* the slots whose transmit-complete bit is in the snapshot
tx_done_slots(intf) == {n \in Slots : TXnIF(n) \in intf}

\* if (priv->netif_queue_stopped && priv->tx_busy_map < TX_MAP_BUSY)
wake_queue_cond(stopped, map) == stopped = 1 /\ Val(map) < TX_MAP_BUSY

\* mcp2515_clear_canintf_complete: clear-error-flags when the snapshot's EFLG
\* is not zero
clear_canintf_next(e) == IF e # {} THEN "clear_eflg" ELSE "read_flags"

(* The exchange a completion handler goes on to, shared by the handlers:    *)
(* "load_txb" dequeues the lowest pending slot, "read_flags" with again set *)
(* consumes the deferred-interrupt flag, "idle" clears busy and arms the    *)
(* fallback timer.  nl is nload as the handler leaves it.                   *)
issue_next(next, again, nl) ==
  LET base == outstanding - 1
      id == find_pending_slot(tx_pending_map)
  IN
  /\ CASE next = "load_txb" ->
            /\ tx_pending_map' = dequeue(tx_pending_map, id)
            /\ accept_order' = SelectSeq(accept_order, LAMBDA x : x # id)
            /\ fault' = IF skb[id] = NULL THEN "null" ELSE fault
            /\ \E ok \in spi_answers : mcp2515_load_txb(base, nl, id, ok)
            /\ UNCHANGED <<busy, interrupt, timer_pending, extra_cycle, owed>>
       [] next = "read_flags" ->
            /\ interrupt' = IF again THEN 0 ELSE interrupt
            /\ extra_cycle' = (extra_cycle \/ again)
            /\ nload' = nl
            /\ \E ok \in spi_answers :
                 /\ mcp2515_read_flags(base, ok)
                 /\ owed' = owed_after_read(ok)
            /\ UNCHANGED <<busy, tx_pending_map, loaded_txb,
                           timer_pending, fault, accept_order>>
       [] next = "idle" ->
            /\ busy' = 0
            /\ timer_pending' = TRUE
            /\ nload' = nl
            /\ new_busy_period
            /\ no_spi_async(base)
            /\ UNCHANGED <<interrupt, tx_pending_map, loaded_txb, fault,
                           accept_order>>
       [] OTHER ->
            /\ nload' = nl
            /\ \E ok \in spi_answers : spi_async(base, next, ok)
            /\ UNCHANGED <<busy, interrupt, tx_pending_map, loaded_txb,
                           timer_pending, extra_cycle, owed, fault,
                           accept_order>>

\* a completion handler that returns without going on to a next exchange
returns_early ==
  /\ no_spi_async(outstanding - 1)
  /\ UNCHANGED <<busy, interrupt, tx_pending_map, loaded_txb, timer_pending,
                 nload, extra_cycle, owed, fault, accept_order>>

\* a completion callback runs when its exchange has gone through
completes(cb) == fault = "none" /\ outstanding > 0 /\ complete = cb

(* ------------------------------------------------ completion handlers --- *)
\* the chip answers the READ of CANINTF and EFLG with its registers
mcp2515_read_flags_complete ==
  /\ UNCHANGED <<env, can_dlc, bytes_unacked, part_vars>>
  /\ completes("read_flags")
  /\ canintf' = hw_canintf
  /\ eflg' = hw_eflg
  /\ extra' = 0
  /\ LET next == read_flags_next(hw_canintf, tx_pending_map, interrupt)
     IN /\ issue_next(next, next = "read_flags", nload)
  /\ UNCHANGED <<netif_queue_stopped, tx_busy_map, skb, skip, hw_vars,
                 tasklet_sched, dev_up, queue_xoff,
                 rx_dropped, rx_over_errors, tx_unacked, nrts>>

\* mcp2515_read_rxb_complete: the frame is delivered, or dropped when
\* alloc_can_skb fails
mcp2515_read_rxb_complete(alloc_ok) ==
  /\ rx_dropped' = IF alloc_ok THEN rx_dropped ELSE rx_dropped + 1

\* the answers alloc_can_skb can give
alloc_results ==
  IF env.oom /\ rx_dropped < MaxAllocFail THEN BOOLEAN ELSE {TRUE}

\* READ RX BUFFER n clears RXnIF when the exchange ends
mcp2515_read_rxb0_complete ==
  /\ UNCHANGED <<env, can_dlc, bytes_unacked, part_vars>>
  /\ completes("read_rxb0")
  /\ hw_canintf' = hw_canintf \ {CANINTF_RX0IF}
  /\ \E alloc_ok \in alloc_results :
       /\ mcp2515_read_rxb_complete(alloc_ok)
       /\ IF read_rxb_caller_continues(alloc_ok)
            THEN issue_next(read_rxb0_next(canintf, tx_pending_map), FALSE, nload)
            ELSE returns_early
  /\ UNCHANGED <<netif_queue_stopped, tx_busy_map, skb, canintf, eflg, extra,
                 skip, hw_eflg, hw_txreq, tasklet_sched, dev_up, queue_xoff,
                 rx_over_errors, tx_unacked, nrts>>

mcp2515_read_rxb1_complete ==
  /\ UNCHANGED <<env, can_dlc, bytes_unacked, part_vars>>
  /\ completes("read_rxb1")
  /\ hw_canintf' = hw_canintf \ {CANINTF_RX1IF}
  /\ \E alloc_ok \in alloc_results :
       /\ mcp2515_read_rxb_complete(alloc_ok)
       /\ IF read_rxb_caller_continues(alloc_ok)
            THEN issue_next(transmit_or_read_flags_next(tx_pending_map), FALSE, nload)
            ELSE returns_early
  /\ UNCHANGED <<netif_queue_stopped, tx_busy_map, skb, canintf, eflg, extra,
                 skip, hw_eflg, hw_txreq, tasklet_sched, dev_up, queue_xoff,
                 rx_over_errors, tx_unacked, nrts>>

\* mcp2515_update_device_stats counts a slot only when it holds a frame
acked_slots(intf) == {n \in tx_done_slots(intf) : skb[n] # NULL}

\* stats.tx_bytes += f->can_dlc over the slots S
RECURSIVE tx_bytes_added(_)
tx_bytes_added(S) ==
  IF S = {} THEN 0
  ELSE LET n == CHOOSE x \in S : TRUE
       IN can_dlc[n] + tx_bytes_added(S \ {n})

\* BIT MODIFY of CANINTF with the snapshot less RX0IF and RX1IF as mask
mcp2515_clear_canintf_complete ==
  /\ UNCHANGED <<env, part_vars>>
  /\ completes("clear_canintf")
  /\ hw_canintf' = hw_canintf \ (canintf \ {CANINTF_RX0IF, CANINTF_RX1IF})
  /\ LET done == tx_done_slots(canintf)
         map1 == tx_busy_map \ done
         next == clear_canintf_next(eflg)
     IN /\ tx_unacked' = tx_unacked - Cardinality(acked_slots(canintf))
        /\ bytes_unacked' = bytes_unacked - tx_bytes_added(acked_slots(canintf))
        /\ can_dlc' = reset_slots(can_dlc, done)
        /\ skb' = [i \in Slots |-> IF i \in done THEN NULL ELSE skb[i]]
        /\ tx_busy_map' = map1
        /\ nrts' = reset_slots(nrts, done)
        /\ IF wake_queue_cond(netif_queue_stopped, map1)
             THEN netif_queue_stopped' = 0 /\ queue_xoff' = FALSE
             ELSE UNCHANGED <<netif_queue_stopped, queue_xoff>>
        /\ issue_next(next, FALSE, reset_slots(nload, done))
  /\ UNCHANGED <<canintf, eflg, extra, skip, hw_eflg, hw_txreq,
                 tasklet_sched, dev_up, rx_dropped, rx_over_errors>>

\* if (priv->eflg & (EFLG_RX0OVR | EFLG_RX1OVR))
eflg_overrun(e) == e \cap {EFLG_RX0OVR, EFLG_RX1OVR} # {}

\* BIT MODIFY of EFLG with the snapshot as mask: the chip lets the two
\* overrun bits be cleared, its other EFLG bits are read-only
mcp2515_clear_eflg_complete ==
  /\ UNCHANGED <<env, frame_vars, part_vars>>
  /\ completes("clear_eflg")
  /\ hw_eflg' = hw_eflg \ (eflg \cap {EFLG_RX0OVR, EFLG_RX1OVR})
  /\ rx_over_errors' = IF eflg_overrun(eflg) THEN rx_over_errors + 1
                       ELSE rx_over_errors
  /\ issue_next("read_flags", FALSE, nload)
  /\ UNCHANGED <<netif_queue_stopped, tx_busy_map, skb, canintf, eflg, extra,
                 skip, hw_canintf, hw_txreq, tasklet_sched, dev_up, queue_xoff,
                 rx_dropped, tx_unacked, nrts>>

\* mcp2515_rts_txb: the RequestSend exchange for priv->loaded_txb
mcp2515_load_txb_complete ==
  /\ UNCHANGED <<env, frame_vars, part_vars>>
  /\ completes("load_txb")
  /\ nrts' = [nrts EXCEPT ![loaded_txb] = @ + 1]
  /\ issue_next("rts_txb", FALSE, nload)
  /\ UNCHANGED <<netif_queue_stopped, tx_busy_map, skb, canintf, eflg, extra,
                 skip, hw_vars, tasklet_sched, dev_up, queue_xoff,
                 rx_dropped, rx_over_errors, tx_unacked>>

\* RTS sets TXREQ of the buffer; a chip that was reset is not on the bus
mcp2515_rts_txb_complete ==
  /\ UNCHANGED <<env, frame_vars, part_vars>>
  /\ completes("rts_txb")
  /\ hw_txreq' = IF dev_up THEN hw_txreq \cup {loaded_txb} ELSE hw_txreq
  /\ issue_next("read_flags", FALSE, nload)
  /\ UNCHANGED <<netif_queue_stopped, tx_busy_map, skb, canintf, eflg, extra,
                 skip, hw_canintf, hw_eflg, tasklet_sched, dev_up, queue_xoff,
                 rx_dropped, rx_over_errors, tx_unacked, nrts>>

(* ------------------------------------------------------------ the chip -- *)
(* The MCP2515 as the driver configures it.  CANINTE enables the receive,   *)
(* transmit and error interrupts, the INT pin is low while an enabled flag  *)
(* of CANINTF is set, and the irq is requested IRQF_TRIGGER_FALLING: the    *)
(* interrupt handler runs on the edge and schedules the tasklet.            *)
falling_edge(old, new) == dev_up /\ old = {} /\ new # {}

\* mcp2515_interrupt: tasklet_schedule
mcp2515_interrupt(old, new) ==
  tasklet_sched' = (tasklet_sched \/ falling_edge(old, new))

(* A received frame goes to RXB0, rolls over to RXB1 when RXB0 is full      *)
(* (RXBCTRL_BUKT), and is lost with an overrun flag and ERRIF when both are *)
(* full; which of the two overrun flags the chip sets, or both, is not      *)
(* settled.                                                                 *)
HwRxFrame ==
  /\ UNCHANGED <<env, frame_vars, part_vars>>
  /\ fault = "none" /\ dev_up /\ env.rx
  /\ \E new \in
       IF CANINTF_RX0IF \notin hw_canintf
         THEN {<<hw_canintf \cup {CANINTF_RX0IF}, hw_eflg>>}
       ELSE IF CANINTF_RX1IF \notin hw_canintf
         THEN {<<hw_canintf \cup {CANINTF_RX1IF}, hw_eflg>>}
       ELSE IF env.ovr /\ rx_over_errors < MaxOvr /\ hw_eflg = {}
         THEN {<<hw_canintf \cup {CANINTF_ERRIF}, ovr>> :
                 ovr \in (SUBSET {EFLG_RX0OVR, EFLG_RX1OVR}) \ {{}}}
       ELSE {} :
       /\ hw_canintf' = new[1]
       /\ hw_eflg' = new[2]
       /\ mcp2515_interrupt(hw_canintf, new[1])
  /\ UNCHANGED <<priv_vars, spi_vars, timer_pending, dev_up, queue_xoff,
                 rx_dropped, rx_over_errors, hw_txreq, obs_vars>>

\* a buffer whose TXREQ is set goes out on the bus and raises its TXnIF
HwTxDone ==
  /\ UNCHANGED <<env, frame_vars, part_vars>>
  /\ fault = "none" /\ dev_up
  /\ \E n \in hw_txreq :
       /\ hw_txreq' = hw_txreq \ {n}
       /\ hw_canintf' = hw_canintf \cup {TXnIF(n)}
       /\ mcp2515_interrupt(hw_canintf, hw_canintf \cup {TXnIF(n)})
  /\ UNCHANGED <<priv_vars, spi_vars, timer_pending, dev_up, queue_xoff,
                 rx_dropped, rx_over_errors, hw_eflg, obs_vars>>

\* MCP2515_INSTRUCTION_RESET
hw_reset ==
  /\ hw_canintf' = {} /\ hw_eflg' = {} /\ hw_txreq' = {}

(* ------------------------------------------------------- open and close - *)
\* ndo_open: request_irq, mcp2515_chip_start, netif_start_queue; a failed
\* chip start frees the irq again and leaves the device down
mcp2515_open ==
  /\ UNCHANGED <<env, frame_vars, part_vars>>
  /\ fault = "none" /\ ~dev_up
  /\ hw_reset
  /\ \E started \in BOOLEAN :
       /\ dev_up' = started
       /\ queue_xoff' = IF started THEN FALSE ELSE queue_xoff
  /\ UNCHANGED <<priv_vars, spi_vars, timer_pending, tasklet_sched,
                 rx_dropped, rx_over_errors,
                 tx_unacked, nload, nrts,
                 extra_cycle, owed, fault>>

\* ndo_stop: netif_stop_queue, mcp2515_chip_stop, free_irq, sleep
mcp2515_close ==
  /\ UNCHANGED <<env, frame_vars, part_vars>>
  /\ fault = "none" /\ dev_up /\ env.reopen
  /\ queue_xoff' = TRUE
  /\ hw_reset
  /\ dev_up' = FALSE
  /\ UNCHANGED <<priv_vars, spi_vars, timer_pending, tasklet_sched,
                 rx_dropped, rx_over_errors,
                 tx_unacked, nload, nrts,
                 extra_cycle, owed, fault>>

(* ------------------------------------------------------ the frame codec - *)
(* mcp2515_set_txbuf and the decoding half of mcp2515_read_rxb_complete on  *)
(* bytes.  A frame is its identifier (bits 0..28 of can_id), the bits       *)
(* CAN_EFF_FLAG and CAN_RTR_FLAG of can_id as eff and rtr, can_dlc and      *)
(* eight data bytes: the shifts and the stores into u8 of the encoder drop  *)
(* the flag bits, which the code tests apart.  Buffers are sequences,       *)
(* buf[k] of the C code is element k + 1.                                   *)
RECURSIVE BitAnd(_, _)
BitAnd(a, b) ==
  IF a = 0 \/ b = 0 THEN 0
  ELSE (a % 2) * (b % 2) + 2 * BitAnd(a \div 2, b \div 2)

RECURSIVE BitOr(_, _)
BitOr(a, b) ==
  IF a = 0 THEN b
  ELSE IF b = 0 THEN a
  ELSE (IF a % 2 = 1 \/ b % 2 = 1 THEN 1 ELSE 0)
         + 2 * BitOr(a \div 2, b \div 2)

Shr(a, k) == a \div 2^k
Shl(a, k) == a * 2^k
\* a store into a u8
u8(x) == x % 256

\* the SIDL byte of an extended frame without the EXIDE bit
txb_sidl_without_exide(id) ==
  u8(BitOr(BitAnd(Shr(id, 13), 224), BitAnd(Shr(id, 16), 3)))

\* buf[1] of an extended frame: (can_id >> 13 & 0xe0) | 8 | (can_id >> 16 & 3)
txb_sidl(id) ==
  u8(BitOr(BitOr(BitAnd(Shr(id, 13), 224), 8), BitAnd(Shr(id, 16), 3)))

\* mcp2515_set_txbuf: the 5 + can_dlc bytes written from TXBnSIDH on
mcp2515_set_txbuf(frame) ==
  LET id == IF frame.eff
              THEN <<u8(Shr(frame.id, 21)), txb_sidl(frame.id),
                     u8(Shr(frame.id, 8)), u8(frame.id)>>
              ELSE <<u8(Shr(frame.id, 3)), u8(Shl(frame.id, 5)), 0, 0>>
      dlc == IF frame.rtr THEN BitOr(frame.can_dlc, 64) ELSE frame.can_dlc
  IN id \o <<dlc>> \o SubSeq(frame.data, 1, frame.can_dlc)

\* the 14 bytes of a receive buffer read that carry the bytes txb from
\* RXBnSIDH on, after the byte clocked in with the instruction
rx_buf_of(txb) == <<0>> \o txb \o [i \in 1 .. (13 - Len(txb)) |-> 0]

\* get_can_dlc
get_can_dlc(n) == IF n > 8 THEN 8 ELSE n

\* mcp2515_read_rxb_complete from the test of RXBSIDL_IDE to the memcpy: the
\* frame decoded from the 14 bytes of rx_buf into a zeroed can_frame
rxb_frame(buf) ==
  LET eff == BitAnd(buf[3], RXBSIDL_IDE) # 0
      id == IF eff
              THEN BitOr(BitOr(BitOr(BitOr(Shl(buf[2], 21),
                                           Shl(BitAnd(buf[3], 224), 13)),
                                     Shl(BitAnd(buf[3], 3), 16)),
                               Shl(buf[4], 8)),
                         buf[5])
              ELSE BitOr(Shl(buf[2], 3), Shr(buf[3], 5))
      rtr == IF eff THEN BitAnd(buf[6], RXBDLC_RTR) # 0
             ELSE BitAnd(buf[3], RXBSIDL_SRR) # 0
      dlc == get_can_dlc(BitAnd(buf[6], 15))
  IN [id |-> id, eff |-> eff, rtr |-> rtr, can_dlc |-> dlc,
      data |-> [i \in 1 .. 8 |->
                  IF ~rtr /\ i <= dlc THEN buf[6 + i] ELSE 0]]

\* the frames given to the codec: identifiers at both ends and in the
\* middle of the 11-bit and the 29-bit range, both remote-request flags,
\* every length and a few payloads
StdIds == {0, 1, 1365, 2^11 - 1}
ExtIds == {0, 2^11 - 1, 2^18, 305419896, 2^29 - 1}
payload(seed) == [i \in 1 .. 8 |-> (seed * 85 + i * 37) % 256]
Frames ==
  [id : StdIds, eff : {FALSE}, rtr : BOOLEAN, can_dlc : 0 .. 8,
   data : {payload(x) : x \in 0 .. MaxSeed}]
  \cup
  [id : ExtIds, eff : {TRUE}, rtr : BOOLEAN, can_dlc : 0 .. 8,
   data : {payload(x) : x \in 0 .. MaxSeed}]

\* a frame is encoded into the transmit buffer
codec_set_txbuf ==
  /\ codec.stage = "frame"
  /\ codec' = [codec EXCEPT !.stage = "txbuf",
                            !.buf = mcp2515_set_txbuf(codec.frame)]
  /\ UNCHANGED <<priv_vars, spi_vars, kernel_vars, hw_vars, obs_vars,
                 frame_vars, env, race, start>>

\* the same bytes are decoded as a receive buffer
codec_read_rxb ==
  /\ codec.stage = "txbuf"
  /\ codec' = [codec EXCEPT !.stage = "rxbuf",
                            !.rx = rxb_frame(rx_buf_of(codec.buf))]
  /\ UNCHANGED <<priv_vars, spi_vars, kernel_vars, hw_vars, obs_vars,
                 frame_vars, env, race, start>>

(* ---------------------------------------------------- chip start ------- *)
(* mcp2515_chip_start, called by mcp2515_open and by mcp2515_set_mode: the  *)
(* chip is reset, the bit timing and the receive buffer control registers   *)
(* are written, the mode is written to CANCTRL and CANSTAT is read until    *)
(* the chip has entered it.  Every synchronous transfer but the write of    *)
(* CANCTRL can fail and end the start.                                      *)
\* every combination of the four flags of can.ctrlmode_supported
CtrlModes == 0 .. 15

\* the mode chosen from can.ctrlmode, and CANCTRL_OSM or-ed in under the
\* test the code makes of the mode it has just chosen
chip_start_mode(ctrlmode) ==
  LET mode == IF BitAnd(ctrlmode, CAN_CTRLMODE_LOOPBACK) # 0
                THEN CANCTRL_REQOP_LOOPBACK
              ELSE IF BitAnd(ctrlmode, CAN_CTRLMODE_LISTENONLY) # 0
                THEN CANCTRL_REQOP_LISTEN_ONLY
              ELSE CANCTRL_REQOP_NORMAL
  IN IF BitAnd(mode, CAN_CTRLMODE_ONE_SHOT) # 0
       THEN BitOr(mode, CANCTRL_OSM)
       ELSE mode

\* what the steps of the start leave alone
start_rest ==
  <<priv_vars, spi_vars, kernel_vars, hw_vars, obs_vars, frame_vars, env,
    codec, race>>

\* a synchronous transfer that failed: chip_start returns the error
start_fails(err) == start' = [start EXCEPT !.stage = "failed", !.err = err]

\* mcp2515_hw_reset: the chip is in configuration mode
start_hw_reset ==
  /\ start.stage = "reset"
  /\ \/ start_fails("reset")
     \/ start' = [start EXCEPT !.stage = "cnf",
                                !.canctrl = CANCTRL_REQOP_CONF]
  /\ UNCHANGED start_rest

\* CNF3, CNF2, CNF1 and CANINTE in one write; CNF2_SAM from the
\* triple-sample flag
start_write_cnf ==
  /\ start.stage = "cnf"
  /\ \/ start_fails("cnf")
     \/ start' = [start EXCEPT
                    !.stage = "rxbctrl",
                    !.sam = BitAnd(start.ctrlmode, CAN_CTRLMODE_3_SAMPLES) # 0]
  /\ UNCHANGED start_rest

\* RXB0CTRL and RXB1CTRL
start_write_rxbctrl ==
  /\ start.stage = "rxbctrl"
  /\ \/ start_fails("rxbctrl")
     \/ start' = [start EXCEPT !.stage = "canctrl"]
  /\ UNCHANGED start_rest

\* mcp2515_write_reg(spi, CANCTRL, mode): its result is not looked at
start_write_canctrl ==
  /\ start.stage = "canctrl"
  /\ \E written \in BOOLEAN :
       start' = [start EXCEPT
                   !.stage = "poll",
                   !.mode = chip_start_mode(start.ctrlmode),
                   !.canctrl = IF written
                                 THEN chip_start_mode(start.ctrlmode)
                                 ELSE @]
  /\ UNCHANGED start_rest

\* one turn of the loop: CANSTAT is read; the chip shows the mode of CANCTRL
\* once it has entered it and configuration mode until then
start_read_canstat ==
  /\ start.stage = "poll"
  /\ \/ start_fails("canstat")
     \/ \E reg_stat \in {CANCTRL_REQOP_CONF,
                          BitAnd(start.canctrl, CANCTRL_REQOP_MASK)} :
          IF BitAnd(reg_stat, CANCTRL_REQOP_MASK) = start.mode
            THEN start' = [start EXCEPT !.stage = "started"]
            ELSE \/ start_fails("timeout")
                 \/ UNCHANGED start
  /\ UNCHANGED start_rest

(* ------------------------------------------- the two handlers, unlocked - *)
(* mcp2515_start_xmit on one processor and mcp2515_clear_canintf_complete,  *)
(* the completion callback of the SPI controller, on another or in an       *)
(* interrupt of the first.  start_xmit takes priv->lock; the completion     *)
(* handler takes no lock.  Every step is one load or one store of a shared  *)
(* object: tx_busy_map is a u8, and busy, interrupt and netif_queue_stopped *)
(* are bit-fields of one unsigned, written by a load and a store of the     *)
(* unit that holds the three.                                               *)
\* the storage unit of the bit-fields
flags_unit ==
  [busy |-> busy, interrupt |-> interrupt,
   netif_queue_stopped |-> netif_queue_stopped]

\* what the steps of the two handlers leave alone
race_rest ==
  <<loaded_txb, canintf, eflg, extra, skip, spi_vars, timer_pending,
    tasklet_sched, dev_up, rx_dropped, rx_over_errors, hw_vars, obs_vars,
    frame_vars, env, codec, start>>

\* spin_lock_bh(&priv->lock) of mcp2515_start_xmit, called while the queue
\* runs
xmit_lock ==
  /\ race.pcx = "idle" /\ ~queue_xoff /\ race.lock = "free"
  /\ race' = [race EXCEPT !.pcx = "find", !.lock = "xmit"]
  /\ UNCHANGED <<busy, interrupt, netif_queue_stopped, tx_busy_map,
                 tx_pending_map, skb, queue_xoff, race_rest>>

\* the loop: tx_busy_map is loaded and the first free slot found
xmit_load_map ==
  /\ race.pcx = "find"
  /\ find_free_slot(tx_busy_map) < MCP2515_TX_CNT
  /\ race' = [race EXCEPT !.pcx = "set", !.xmap = tx_busy_map,
                          !.tx_idx = find_free_slot(tx_busy_map)]
  /\ UNCHANGED <<busy, interrupt, netif_queue_stopped, tx_busy_map,
                 tx_pending_map, skb, queue_xoff, race_rest>>

\* priv->tx_busy_map |= BIT(tx_idx): the store
xmit_store_map ==
  /\ race.pcx = "set"
  /\ tx_busy_map' = race.xmap \cup {race.tx_idx}
  /\ race' = [race EXCEPT !.pcx = "full"]
  /\ UNCHANGED <<busy, interrupt, netif_queue_stopped,
                 tx_pending_map, skb, queue_xoff, race_rest>>

\* if (priv->tx_busy_map >= TX_MAP_BUSY), and the load of the flags
xmit_test_full ==
  /\ race.pcx = "full"
  /\ race' = [race EXCEPT
                !.pcx = IF tx_ring_full(tx_busy_map) THEN "stop" ELSE "skb",
                !.xflags = flags_unit]
  /\ UNCHANGED <<busy, interrupt, netif_queue_stopped, tx_busy_map,
                 tx_pending_map, skb, queue_xoff, race_rest>>

\* priv->netif_queue_stopped = 1: the store; netif_stop_queue
xmit_stop_queue ==
  /\ race.pcx = "stop"
  /\ busy' = race.xflags.busy /\ interrupt' = race.xflags.interrupt
  /\ netif_queue_stopped' = 1
  /\ queue_xoff' = TRUE
  /\ race' = [race EXCEPT !.pcx = "skb"]
  /\ UNCHANGED <<tx_busy_map, tx_pending_map, skb, race_rest>>

\* priv->skb[tx_idx] = skb, the Pending bit while busy, spin_unlock_bh
xmit_unlock ==
  /\ race.pcx = "skb"
  /\ skb' = [skb EXCEPT ![race.tx_idx] = SKB]
  /\ tx_pending_map' = IF busy = 1 THEN tx_pending_map \cup {race.tx_idx}
                       ELSE tx_pending_map
  /\ accept_order' = IF busy = 1 THEN Append(accept_order, race.tx_idx)
                     ELSE accept_order
  /\ race' = [race EXCEPT !.pcx = "done", !.lock = "free"]
  /\ UNCHANGED <<busy, interrupt, netif_queue_stopped, tx_busy_map,
                 queue_xoff, loaded_txb, canintf, eflg, extra, skip, spi_vars,
                 timer_pending, tasklet_sched, dev_up, rx_dropped,
                 rx_over_errors, hw_vars, obs_vars, can_dlc, bytes_unacked,
                 env, codec, start>>

\* if (priv->canintf & CANINTF_TXnIF): priv->skb[n] = NULL and the load of
\* tx_busy_map, or on to the next slot
complete_test_slot ==
  /\ race.pcc = "test" /\ race.n < MCP2515_TX_CNT
  /\ IF TXnIF(race.n) \in canintf
       THEN /\ skb' = [skb EXCEPT ![race.n] = NULL]
            /\ race' = [race EXCEPT !.pcc = "clear", !.cmap = tx_busy_map]
       ELSE /\ race' = [race EXCEPT !.n = @ + 1]
            /\ UNCHANGED skb
  /\ UNCHANGED <<busy, interrupt, netif_queue_stopped, tx_busy_map,
                 tx_pending_map, queue_xoff, race_rest>>

\* priv->tx_busy_map &= ~BIT(n): the store
complete_store_map ==
  /\ race.pcc = "clear"
  /\ tx_busy_map' = race.cmap \ {race.n}
  /\ race' = [race EXCEPT !.pcc = "test", !.n = @ + 1]
  /\ UNCHANGED <<busy, interrupt, netif_queue_stopped,
                 tx_pending_map, skb, queue_xoff, race_rest>>

\* if (priv->netif_queue_stopped && priv->tx_busy_map < TX_MAP_BUSY)
complete_test_wake ==
  /\ race.pcc = "test" /\ race.n = MCP2515_TX_CNT
  /\ race' = [race EXCEPT
                !.pcc = IF wake_queue_cond(netif_queue_stopped, tx_busy_map)
                          THEN "wake" ELSE "done",
                !.cflags = flags_unit]
  /\ UNCHANGED <<busy, interrupt, netif_queue_stopped, tx_busy_map,
                 tx_pending_map, skb, queue_xoff, race_rest>>

\* priv->netif_queue_stopped = 0: the store; netif_wake_queue
complete_wake_queue ==
  /\ race.pcc = "wake"
  /\ busy' = race.cflags.busy /\ interrupt' = race.cflags.interrupt
  /\ netif_queue_stopped' = 0
  /\ queue_xoff' = FALSE
  /\ race' = [race EXCEPT !.pcc = "done"]
  /\ UNCHANGED <<tx_busy_map, tx_pending_map, skb, race_rest>>

(* ------------------------------------------------------ specification --- *)
Next ==
  \/ mcp2515_open
  \/ mcp2515_close
  \/ mcp2515_softirq_handler
  \/ read_flags_timer_cb
  \/ mcp2515_start_xmit
  \/ mcp2515_read_flags_complete
  \/ mcp2515_read_rxb0_complete
  \/ mcp2515_read_rxb1_complete
  \/ mcp2515_clear_canintf_complete
  \/ mcp2515_clear_eflg_complete
  \/ mcp2515_load_txb_complete
  \/ mcp2515_rts_txb_complete
  \/ HwRxFrame
  \/ HwTxDone

Spec == Init /\ [][Next]_vars

(* The codec by itself: a frame is drawn, encoded and decoded.              *)
CodecInit ==
  /\ probed
  /\ env = Environment(TRUE, TRUE, FALSE, FALSE, TRUE, FALSE, {8})
  /\ race = PartOff /\ start = PartOff
  /\ \E f \in Frames :
       codec = [stage |-> "frame", frame |-> f, buf |-> <<>>, rx |-> f]

CodecNext == codec_set_txbuf \/ codec_read_rxb

SpecCodec == CodecInit /\ [][CodecNext]_vars

(* The two handlers by themselves.  A ClearStatus exchange has completed    *)
(* and its callback is about to run: busy is set, the snapshot has the      *)
(* transmit-complete bit of some occupied slots, the occupied slots hold    *)
(* frames that were sent, and the queue is stopped exactly when the ring is *)
(* full.                                                                    *)
RaceInit ==
  /\ busy = 1 /\ \E irq \in {0, 1} : interrupt = irq
  /\ \E map \in SUBSET Slots : \E done \in (SUBSET map) \ {{}} :
       /\ tx_busy_map = map
       /\ canintf = {TXnIF(n) : n \in done}
       /\ skb = [i \in Slots |-> IF i \in map THEN SKB ELSE NULL]
       /\ netif_queue_stopped = (IF map = Slots THEN 1 ELSE 0)
       /\ queue_xoff = (map = Slots)
       /\ tx_unacked = Cardinality(map)
       /\ nload = [i \in Slots |-> IF i \in map THEN 1 ELSE 0]
       /\ nrts = [i \in Slots |-> IF i \in map THEN 1 ELSE 0]
       /\ can_dlc = [i \in Slots |-> IF i \in map THEN 8 ELSE 0]
       /\ bytes_unacked = 8 * Cardinality(map)
       /\ accept_order = <<>>
       /\ race = [stage |-> "on", pcx |-> "idle", pcc |-> "test",
                  lock |-> "free", n |-> 0, tx_idx |-> 0,
                  xmap |-> {}, cmap |-> {},
                  xflags |-> flags_unit, cflags |-> flags_unit,
                  map0 |-> map]
  /\ loaded_txb = 0 /\ tx_pending_map = {}
  /\ eflg = {} /\ extra = 0 /\ skip = 0
  /\ complete = "clear_canintf" /\ outstanding = 1 /\ sub_err = FALSE
  /\ timer_pending = FALSE /\ tasklet_sched = FALSE /\ dev_up = TRUE
  /\ rx_dropped = 0 /\ rx_over_errors = 0
  /\ hw_canintf = {} /\ hw_eflg = {} /\ hw_txreq = {}
  /\ extra_cycle = FALSE /\ owed = FALSE /\ fault = "none"
  /\ env = Environment(TRUE, TRUE, FALSE, FALSE, TRUE, FALSE, {8})
  /\ codec = PartOff /\ start = PartOff

RaceNext ==
  \/ xmit_lock
  \/ xmit_load_map
  \/ xmit_store_map
  \/ xmit_test_full
  \/ xmit_stop_queue
  \/ xmit_unlock
  \/ complete_test_slot
  \/ complete_store_map
  \/ complete_test_wake
  \/ complete_wake_queue

SpecRace == RaceInit /\ [][RaceNext]_vars

(* mcp2515_chip_start by itself, for every setting of the control-mode      *)
(* flags and both of its callers.                                           *)
StartInit ==
  /\ probed
  /\ env = Environment(TRUE, TRUE, FALSE, FALSE, TRUE, FALSE, {8})
  /\ codec = PartOff /\ race = PartOff
  /\ \E caller \in {"mcp2515_open", "mcp2515_set_mode"} :
     \E ctrlmode \in CtrlModes :
       start = [stage |-> "reset", caller |-> caller, ctrlmode |-> ctrlmode,
                mode |-> CANCTRL_REQOP_NORMAL, sam |-> FALSE,
                canctrl |-> CANCTRL_REQOP_SLEEP, err |-> "none"]

StartNext ==
  \/ start_hw_reset
  \/ start_write_cnf
  \/ start_write_rxbctrl
  \/ start_write_canctrl
  \/ start_read_canstat

SpecStart == StartInit /\ [][StartNext]_vars

(* The scheduler over a transport that takes every message and completes   *)
(* every exchange it has taken: spi_async never fails, and the completion   *)
(* callback of an outstanding message is called in the end.                 *)
\* a sending node that is closed and opened again, and a listening node
LiveEnvironments ==
  { Environment(TRUE, FALSE, FALSE, FALSE, FALSE, TRUE, {8}),
    Environment(FALSE, TRUE, TRUE, TRUE, FALSE, FALSE, {8}) }

LiveInit ==
  /\ probed
  /\ env \in LiveEnvironments
  /\ codec = PartOff /\ race = PartOff /\ start = PartOff

\* the callback of the outstanding message is called
Completion ==
  /\ WF_vars(mcp2515_read_flags_complete)
  /\ WF_vars(mcp2515_read_rxb0_complete)
  /\ WF_vars(mcp2515_read_rxb1_complete)
  /\ WF_vars(mcp2515_clear_canintf_complete)
  /\ WF_vars(mcp2515_clear_eflg_complete)
  /\ WF_vars(mcp2515_load_txb_complete)
  /\ WF_vars(mcp2515_rts_txb_complete)

SpecLive == LiveInit /\ [][Next]_vars /\ Completion

TypeOK ==
  /\ busy \in {0, 1} /\ interrupt \in {0, 1} /\ netif_queue_stopped \in {0, 1}
  /\ loaded_txb \in Slots
  /\ tx_busy_map \subseteq Slots /\ tx_pending_map \subseteq Slots
  /\ env \in Environments \cup LiveEnvironments
  /\ outstanding \in 0 .. 2

(* ============================================================ properties *)
\* a step in which spi_async is called: the message is taken, or rejected
Submits == outstanding' = outstanding + 1 \/ (sub_err' /\ ~sub_err)

\* a step of one of the three wake sources
WakeStep ==
  mcp2515_softirq_handler \/ read_flags_timer_cb \/ mcp2515_start_xmit

C1_AtMostOne ==
  /\ outstanding <= 1
  /\ outstanding = 1 => busy = 1

C1_Discipline ==
  /\ (WakeStep /\ Submits) => (busy = 0 /\ busy' = 1)
  /\ (busy = 0 /\ busy' = 1) => WakeStep
  /\ (busy = 1 /\ busy' = 0) =>
       /\ mcp2515_read_flags_complete
       /\ outstanding' = 0 /\ timer_pending'

(* C1: for every interleaving of tasklet, fallback timer, ndo_start_xmit    *)
(* and completion callbacks at most one exchange is outstanding, and only   *)
(* while busy is set; a wake source submits an exchange only in the step    *)
(* that takes busy from 0 to 1, nothing else sets busy, and busy is cleared *)
(* only by the ReadStatus completion handler when it goes Idle.             *)
C1_SingleExchange == []C1_AtMostOne /\ [][C1_Discipline]_vars

\* an exchange is in flight while an interrupt, a frame from the stack and
\* the fallback timer have all found the scheduler busy
C1_Witness ==
  /\ outstanding = 1 /\ busy = 1
  /\ interrupt = 1 /\ tx_pending_map # {} /\ skip > 0

C2_StoppedIffFull == netif_queue_stopped = 1 <=> tx_busy_map = Slots

C2_Resume ==
  (netif_queue_stopped = 1 /\ netif_queue_stopped' = 0) =>
    /\ mcp2515_clear_canintf_complete
    /\ Cardinality(tx_busy_map') < MCP2515_TX_CNT
    /\ ~queue_xoff'

C3_SlotAccounting ==
  /\ Cardinality(tx_busy_map) = tx_unacked
  /\ Cardinality(tx_busy_map) <= MCP2515_TX_CNT

\* the six branches in the order of section 4.1 of the specification
C4_Branch(intf, pending, irq) ==
  CASE CANINTF_RX0IF \in intf -> 1
    [] CANINTF_RX0IF \notin intf /\ CANINTF_RX1IF \in intf -> 2
    [] intf \cap {CANINTF_RX0IF, CANINTF_RX1IF} = {} /\ intf # {} -> 3
    [] intf = {} /\ pending # {} -> 4
    [] intf = {} /\ pending = {} /\ irq = 1 -> 5
    [] OTHER -> 6

\* what a step of the handler did
C4_Called(cb) ==
  /\ busy' = 1 /\ complete' = cb
  /\ (outstanding' = 1 /\ ~sub_err') \/ (outstanding' = 0 /\ sub_err')

C4_Did(n) ==
  CASE n = 1 -> C4_Called("read_rxb0") /\ UNCHANGED <<tx_pending_map, interrupt>>
    [] n = 2 -> C4_Called("read_rxb1") /\ UNCHANGED <<tx_pending_map, interrupt>>
    [] n = 3 -> C4_Called("clear_canintf")
                  /\ UNCHANGED <<tx_pending_map, interrupt>>
    [] n = 4 -> /\ C4_Called("load_txb")
                /\ tx_pending_map # {}
                /\ tx_pending_map' = tx_pending_map \ {Min(tx_pending_map)}
                /\ loaded_txb' = Min(tx_pending_map)
                /\ UNCHANGED interrupt
    [] n = 5 -> /\ C4_Called("read_flags")
                /\ interrupt = 1 /\ interrupt' = 0
                /\ UNCHANGED tx_pending_map
    [] OTHER -> /\ busy' = 0 /\ timer_pending'
                /\ outstanding' = 0 /\ ~sub_err'
                /\ UNCHANGED <<tx_pending_map, interrupt>>

C4_Step ==
  mcp2515_read_flags_complete =>
    \A n \in 1 .. 6 :
      C4_Did(n) <=> (n = C4_Branch(hw_canintf, tx_pending_map, interrupt))

(* C4: when ReadStatus completes, the handler does exactly one of the six   *)
(* things, the first whose condition holds on the CANINTF byte just read,   *)
(* the pending map and the deferred-interrupt flag: read RXB0, read RXB1,   *)
(* ClearStatus, dequeue the lowest pending slot and load it, ReadStatus     *)
(* again with the flag cleared, or Idle with busy cleared and the timer     *)
(* armed.                                                                   *)
C4_Priority == [][C4_Step]_vars

\* RXB0 is being read although RX1IF, a transmit flag, a pending slot and
\* the deferred interrupt were all there to choose from
C4_Witness ==
  /\ complete = "read_rxb0" /\ outstanding = 1
  /\ CANINTF_RX1IF \in canintf /\ tx_done_slots(canintf) # {}
  /\ tx_pending_map # {} /\ interrupt = 1

C5_Rejects ==
  (mcp2515_start_xmit /\ Slots \ tx_busy_map = {}) =>
    /\ fault' = "none"
    /\ tx_unacked' = tx_unacked
    /\ queue_xoff'
    /\ UNCHANGED <<skb, tx_pending_map, outstanding, complete>>

(* C5: called with no Free slot, mcp2515_start_xmit stops the queue and     *)
(* refuses the frame: no slot and no word behind the slots is written, no   *)
(* Pending bit is set, nothing is submitted and the frame is not taken.     *)
C5_FullRingRejects == [][C5_Rejects]_vars

\* a step of one of the seven completion handlers
CompletionStep ==
  \/ mcp2515_read_flags_complete
  \/ mcp2515_read_rxb0_complete
  \/ mcp2515_read_rxb1_complete
  \/ mcp2515_clear_canintf_complete
  \/ mcp2515_clear_eflg_complete
  \/ mcp2515_load_txb_complete
  \/ mcp2515_rts_txb_complete

C6_Slots ==
  /\ fault # "null"
  /\ \A i \in Slots :
       /\ nload[i] <= 1 /\ nrts[i] <= nload[i]
       /\ i \in tx_pending_map => (i \in tx_busy_map /\ nload[i] = 0)
       /\ i \in tx_busy_map => skb[i] # NULL

C6_Step ==
  /\ (mcp2515_start_xmit /\ busy = 1 /\ Slots \ tx_busy_map # {}) =>
       LET i == Min(Slots \ tx_busy_map)
       IN /\ tx_pending_map' = tx_pending_map \cup {i}
          /\ skb'[i] # NULL /\ nload'[i] = 0
          /\ UNCHANGED <<outstanding, complete, sub_err, loaded_txb>>
  /\ \A i \in Slots :
       (i \in tx_pending_map /\ nload'[i] = nload[i] + 1) =>
         /\ CompletionStep
         /\ i = Min(tx_pending_map) /\ i \notin tx_pending_map'
         /\ loaded_txb' = i /\ complete' = "load_txb"

TakesDeferred ==
  mcp2515_read_flags_complete /\ interrupt = 1 /\ interrupt' = 0

(* C7 as stated: in one busy period the deferred-interrupt flag causes one  *)
(* extra ReadStatus cycle, however many interrupts arrive while busy, and   *)
(* no second one.                                                           *)
C7_OneExtraCycle == [][TakesDeferred => ~extra_cycle]_vars

C7_Step ==
  /\ (interrupt = 1 /\ interrupt' = 0) =>
       /\ mcp2515_read_flags_complete
       /\ C4_Called("read_flags")
  /\ (interrupt = 0 /\ interrupt' = 1) =>
       (mcp2515_softirq_handler /\ busy = 1)
  /\ (mcp2515_softirq_handler /\ busy = 1 /\ interrupt = 1) =>
       UNCHANGED <<priv_vars, spi_vars>>

(* C7, amended: every time the deferred-interrupt flag is set it is taken   *)
(* by exactly one extra ReadStatus before Idle, interrupts that arrive      *)
(* while it is set add nothing, and the scheduler is never Idle with the    *)
(* flag set; an interrupt after the flag was taken sets it again.           *)
C7_Coalescing == [](busy = 0 => interrupt = 0) /\ [][C7_Step]_vars

\* the flag is set again in a busy period that has had its extra cycle
C7_Witness == busy = 1 /\ extra_cycle /\ interrupt = 1

(* C8: an interrupt that arrives while busy is set is followed, when        *)
(* exchanges are accepted, by a ReadStatus issued after it before busy is   *)
(* cleared.                                                                 *)
C8_NoLostEvent == [][(busy = 1 /\ busy' = 0) => ~owed]_vars

\* the ReadStatus owed to an interrupt that arrived while busy is in flight
C8_Witness ==
  /\ extra_cycle /\ ~owed /\ interrupt = 0
  /\ complete = "read_flags" /\ outstanding = 1

(* C9: after spi_async has rejected a message, the next tasklet or timer    *)
(* run issues a ReadStatus exchange.                                        *)
C9_Recovers ==
  [][((mcp2515_softirq_handler \/ read_flags_timer_cb)
        /\ sub_err /\ outstanding = 0)
      => (complete' = "read_flags" /\ outstanding' = 1)]_vars

C10_Step ==
  CompletionStep =>
    \/ busy' = 0 /\ outstanding' = 0 /\ ~sub_err'
    \/ busy' = 1 /\ outstanding' = 1 /\ ~sub_err'
    \/ busy' = 1 /\ outstanding' = 0 /\ sub_err'

(* C10: every completion handler, whatever the chip answered and also when  *)
(* alloc_can_skb fails, ends having called spi_async exactly once (one new  *)
(* exchange in flight, or the one message rejected) or Idle with busy       *)
(* cleared and nothing in flight; a dropped frame is counted.               *)
C10_HandlersEnd ==
  [][C10_Step /\ (rx_dropped' # rx_dropped => CompletionStep)]_vars

\* a frame has been dropped for want of memory, an overrun has been counted
\* and the scheduler is on its next exchange
C10_Witness ==
  /\ rx_dropped = 1 /\ rx_over_errors = 1
  /\ busy = 1 /\ outstanding = 1

\* a step in which LoadTxSlot, RequestSend is issued for slot i
LoadIssued(i) == nload'[i] = nload[i] + 1
RtsIssued(i) == nrts'[i] = nrts[i] + 1

C11_Enqueue ==
  /\ (mcp2515_start_xmit /\ tx_busy_map = {} /\ busy = 0) =>
       /\ tx_busy_map' = {0} /\ netif_queue_stopped' = 0
       /\ LoadIssued(0) /\ loaded_txb' = 0 /\ complete' = "load_txb"
  /\ (mcp2515_start_xmit /\ tx_busy_map = {0}) =>
       /\ tx_busy_map' = {0, 1} /\ netif_queue_stopped' = 0
       /\ busy = 1 => (tx_pending_map' = tx_pending_map \cup {1}
                        /\ UNCHANGED <<nload, nrts, loaded_txb>>)
  /\ (mcp2515_start_xmit /\ tx_busy_map = {0, 1}) =>
       /\ tx_busy_map' = Slots /\ netif_queue_stopped = 0
       /\ netif_queue_stopped' = 1 /\ queue_xoff'
       /\ busy = 1 => (tx_pending_map' = tx_pending_map \cup {2}
                        /\ UNCHANGED <<nload, nrts, loaded_txb>>)

C11_Order ==
  \A i \in Slots :
    /\ LoadIssued(i) =>
         /\ loaded_txb' = i /\ complete' = "load_txb"
         /\ \A j \in Slots :
              (j < i /\ j \in tx_busy_map) => (nload[j] = 1 /\ nrts[j] = 1)
         /\ \A j \in tx_pending_map' : j > i
    /\ RtsIssued(i) =>
         /\ mcp2515_load_txb_complete
         /\ loaded_txb = i /\ nload[i] = 1 /\ complete' = "rts_txb"

(* C11, scenario A: frames handed over with no, one and two slots taken go  *)
(* to slots 0, 1 and 2, and the queue is stopped by the third and not       *)
(* before; the frame that finds the scheduler Idle is loaded at once; a     *)
(* LoadTxSlot is issued for a slot only when every lower occupied slot has  *)
(* had its LoadTxSlot and its RequestSend and every waiting slot is higher, *)
(* and a RequestSend only by the completion of the LoadTxSlot of its slot:  *)
(* load and send for slot 0, then slot 1, then slot 2.                      *)
C11_ScenarioA == [][C11_Enqueue /\ C11_Order]_vars

\* all three slots are taken, the queue is stopped, and each slot has been
\* loaded and sent in its turn
C11_Witness ==
  /\ tx_busy_map = Slots /\ netif_queue_stopped = 1 /\ tx_pending_map = {}
  /\ \A i \in Slots : nload[i] = 1 /\ nrts[i] = 1
  /\ complete = "read_flags" /\ outstanding = 1 /\ canintf = {}

C12_Step ==
  /\ (mcp2515_read_flags_complete
        /\ {CANINTF_RX0IF, CANINTF_RX1IF} \subseteq hw_canintf) =>
       /\ C4_Called("read_rxb0")
       /\ UNCHANGED <<tx_pending_map, loaded_txb, nload, hw_canintf>>
  /\ (mcp2515_read_rxb0_complete /\ CANINTF_RX1IF \in canintf) =>
       /\ C4_Called("read_rxb1")
       /\ CANINTF_RX0IF \notin hw_canintf'
       /\ UNCHANGED <<tx_pending_map, loaded_txb, nload, canintf>>
  /\ mcp2515_read_rxb1_complete =>
       /\ complete' \in {"load_txb", "read_flags"}
       /\ CANINTF_RX1IF \notin hw_canintf'
       /\ UNCHANGED canintf
  /\ (complete' = "read_rxb0" /\ complete # "read_rxb0") =>
       mcp2515_read_flags_complete
  /\ (complete' = "read_rxb1" /\ complete # "read_rxb1") =>
       \/ mcp2515_read_rxb0_complete
       \/ mcp2515_read_flags_complete /\ CANINTF_RX0IF \notin hw_canintf
  /\ rx_dropped' # rx_dropped =>
       (mcp2515_read_rxb0_complete \/ mcp2515_read_rxb1_complete)

(* C12, scenario C: a ReadStatus completion that reports RX0IF and RX1IF    *)
(* issues ReadRxBuf0; the completion of ReadRxBuf0 takes the frame of       *)
(* buffer 0 and issues ReadRxBuf1 on the same snapshot; the completion of   *)
(* ReadRxBuf1 takes the frame of buffer 1 and goes on to LoadTxSlot or      *)
(* ReadStatus.  No handler but these issues a buffer read, so each buffer   *)
(* is read once for the snapshot, buffer 0 first, and no ReadStatus or      *)
(* LoadTxSlot comes in between.                                             *)
C12_ScenarioC == [][C12_Step]_vars

\* buffer 1 is being read on a snapshot that had both flags, buffer 0 has
\* been read, and a frame waits in the pending map
C12_Witness ==
  /\ complete = "read_rxb1" /\ outstanding = 1
  /\ {CANINTF_RX0IF, CANINTF_RX1IF} \subseteq canintf
  /\ CANINTF_RX0IF \notin hw_canintf
  /\ tx_pending_map # {}

C13_Step ==
  /\ (mcp2515_read_flags_complete /\ eflg_overrun(hw_eflg)) =>
       /\ complete' \in {"read_rxb0", "read_rxb1", "clear_canintf"}
       /\ busy' = 1 /\ UNCHANGED rx_over_errors
  /\ (mcp2515_clear_canintf_complete /\ eflg_overrun(eflg)) =>
       /\ C4_Called("clear_eflg")
       /\ UNCHANGED <<rx_over_errors, eflg, hw_eflg>>
  /\ (mcp2515_clear_eflg_complete /\ eflg_overrun(eflg)) =>
       /\ rx_over_errors' = rx_over_errors + 1
       /\ hw_eflg' \cap eflg = {}
       /\ C4_Called("read_flags")
  /\ rx_over_errors' # rx_over_errors =>
       (mcp2515_clear_eflg_complete /\ eflg_overrun(eflg))
  /\ (complete' = "clear_eflg" /\ complete # "clear_eflg") =>
       mcp2515_clear_canintf_complete

(* C13, scenario D: a snapshot whose EFLG byte has RX0OVR, RX1OVR or both   *)
(* is followed, once the receive buffers are read and CANINTF is            *)
(* acknowledged, by the clear-error-flags exchange; its completion adds     *)
(* exactly one to rx_over_errors, whichever of the bits are set, leaves the *)
(* bits of the snapshot cleared in the chip, so that a later cycle counts   *)
(* only a new overrun, and issues ReadStatus.  Nothing else counts.         *)
C13_ScenarioD == [][C13_Step]_vars

(* C14, scenario E: the fallback timer firing while busy is set adds one to *)
(* skip and calls spi_async for nothing; busy, the deferred-interrupt flag, *)
(* the slot maps and slots, the status snapshot and the message in flight   *)
(* are as they were.                                                        *)
C14_ScenarioE ==
  [][(read_flags_timer_cb /\ busy = 1) =>
       /\ skip' = skip + 1
       /\ UNCHANGED <<busy, interrupt, netif_queue_stopped, loaded_txb,
                      tx_busy_map, tx_pending_map, skb, canintf, eflg, extra,
                      spi_vars, hw_vars>>]_vars

\* the timer has fired during an exchange and has been counted
C14_Witness ==
  /\ skip = 1 /\ ~timer_pending
  /\ busy = 1 /\ outstanding = 1

C15_Step ==
  /\ mcp2515_close => (~timer_pending' /\ ~tasklet_sched')
  /\ (WakeStep /\ ~dev_up) => ~Submits

(* C15: mcp2515_close leaves the fallback timer disarmed and no tasklet run *)
(* owed, and while the interface is down no wake source issues a register   *)
(* exchange.                                                                *)
C15_Drain == [][C15_Step]_vars

C19_Step ==
  /\ (complete \in {"load_txb", "rts_txb"} /\ outstanding = 1) =>
       loaded_txb' = loaded_txb
  /\ mcp2515_load_txb_complete =>
       /\ C4_Called("rts_txb")
       /\ nload[loaded_txb] = 1 /\ RtsIssued(loaded_txb)
       /\ \A i \in Slots \ {loaded_txb} : nrts'[i] = nrts[i]
  /\ mcp2515_rts_txb_complete =>
       /\ C4_Called("read_flags")
       /\ nrts[loaded_txb] = 1
       /\ hw_txreq' \ hw_txreq \subseteq {loaded_txb}
       /\ dev_up => loaded_txb \in hw_txreq'

(* C19: whatever the wake sources do, loaded_txb is not written between the *)
(* issue of a LoadTxSlot and the completion of its RequestSend; the         *)
(* completion of LoadTxSlot issues RequestSend for the slot that was        *)
(* loaded, and for no other, and the completion of RequestSend issues       *)
(* ReadStatus.                                                              *)
C19_LoadThenSend == [][C19_Step]_vars

\* RequestSend for slot 1 is in flight while an interrupt is deferred and a
\* frame waits in slot 2
C19_Witness ==
  /\ complete = "rts_txb" /\ outstanding = 1 /\ loaded_txb = 1
  /\ interrupt = 1 /\ tx_pending_map = {2} /\ skip > 0

(* C20: whenever the interface is up and the scheduler is Idle, with busy   *)
(* clear and no exchange outstanding, the fallback timer is armed.          *)
C20_ArmedWhenIdle ==
  (dev_up /\ busy = 0 /\ outstanding = 0) => timer_pending

\* a step that releases the frame of slot n
C18_Released(n) == skb[n] # NULL /\ skb'[n] = NULL

C18_Step ==
  LET done == {n \in Slots : TXnIF(n) \in canintf}
  IN /\ mcp2515_clear_canintf_complete =>
          /\ \A n \in done :
               /\ n \in tx_busy_map /\ n \notin tx_pending_map
               /\ nload[n] = 1 /\ nrts[n] = 1
               /\ C18_Released(n) /\ n \notin tx_busy_map'
          /\ \A n \in Slots \ done :
               skb'[n] = skb[n] /\ (n \in tx_busy_map' <=> n \in tx_busy_map)
          /\ tx_unacked' = tx_unacked - Cardinality(done)
          /\ bytes_unacked' = bytes_unacked - tx_bytes_added(done)
     /\ (\/ tx_unacked' < tx_unacked \/ bytes_unacked' < bytes_unacked
         \/ \E n \in Slots : C18_Released(n)
         \/ tx_busy_map \ tx_busy_map' # {}) =>
          mcp2515_clear_canintf_complete

C17_SamePayload(f, g) == \A i \in 1 .. f.can_dlc : g.data[i] = f.data[i]

(* C17 as stated: a frame encoded by mcp2515_set_txbuf and decoded from the *)
(* same bytes comes back with its identifier, extended flag,                *)
(* remote-request flag and length, and its payload when it is not a remote  *)
(* request.                                                                 *)
C17_RoundTripExact ==
  codec.stage = "rxbuf" =>
    LET f == codec.frame
        g == codec.rx
    IN /\ g.id = f.id /\ g.eff = f.eff /\ g.rtr = f.rtr
       /\ g.can_dlc = f.can_dlc
       /\ ~f.rtr => C17_SamePayload(f, g)

(* C17, amended: the identifier, the extended flag and the length come      *)
(* back for every frame, the remote-request flag for every extended frame   *)
(* and for the standard frames that are not remote requests, and the        *)
(* payload of every frame that is not a remote request; a standard remote   *)
(* request comes back as a data frame.                                      *)
C17_RoundTrip ==
  codec.stage = "rxbuf" =>
    LET f == codec.frame
        g == codec.rx
    IN /\ g.id = f.id /\ g.eff = f.eff /\ g.can_dlc = f.can_dlc
       /\ (f.eff \/ ~f.rtr) => g.rtr = f.rtr
       /\ (~f.eff /\ f.rtr) => ~g.rtr
       /\ ~f.rtr => C17_SamePayload(f, g)

\* an extended remote request with all identifier bits set, and a standard
\* data frame of full length, have been through the codec
C17_Witness ==
  /\ codec.stage = "rxbuf"
  /\ \/ codec.frame.eff /\ codec.frame.rtr /\ codec.frame.id = 2^29 - 1
     \/ ~codec.frame.eff /\ ~codec.frame.rtr /\ codec.frame.can_dlc = 8

(* C16: when mcp2515_start_xmit and mcp2515_clear_canintf_complete have     *)
(* both run, concurrently or one after the other, no update is lost: the    *)
(* occupied slots are those occupied before less the acknowledged ones,     *)
(* and the slot of the new frame; each holds a frame, and the queue is      *)
(* stopped exactly when the ring is full.                                   *)
C16_NoLostUpdate ==
  (race.stage = "on" /\ race.pcx = "done" /\ race.pcc = "done") =>
    /\ tx_busy_map = (race.map0 \ tx_done_slots(canintf)) \cup {race.tx_idx}
    /\ \A i \in Slots : i \in tx_busy_map <=> skb[i] # NULL
    /\ netif_queue_stopped = 1 <=> tx_busy_map = Slots
    /\ queue_xoff <=> netif_queue_stopped = 1

\* the completion of a receive buffer read that is the last of its snapshot
C21_LastRead ==
  \/ mcp2515_read_rxb0_complete /\ CANINTF_RX1IF \notin canintf
  \/ mcp2515_read_rxb1_complete

C21_Step ==
  C21_LastRead =>
    /\ busy' = 1 /\ timer_pending' = timer_pending
    /\ IF tx_pending_map # {}
         THEN /\ C4_Called("load_txb")
              /\ tx_pending_map' = tx_pending_map \ {Min(tx_pending_map)}
              /\ loaded_txb' = Min(tx_pending_map)
              /\ LoadIssued(Min(tx_pending_map))
         ELSE /\ C4_Called("read_flags")
              /\ UNCHANGED <<tx_pending_map, loaded_txb, nload>>

(* C21: the completion of ReadRxBuf0 on a snapshot without RX1IF, and every *)
(* completion of ReadRxBuf1, whether the frame was delivered or dropped,    *)
(* takes the lowest Pending slot out of the pending map and issues          *)
(* LoadTxSlot for it when a slot is Pending, and issues ReadStatus when     *)
(* none is; busy stays set and the fallback timer is not armed: the         *)
(* scheduler does not go Idle from a receive completion.                    *)
C21_PostReceive == [][C21_Step]_vars

\* LoadTxSlot of slot 1 is in flight, issued by the completion of ReadRxBuf0
\* on a snapshot that had RX0IF alone, while slot 2 still waits
C21_Witness ==
  /\ complete = "load_txb" /\ outstanding = 1 /\ loaded_txb = 1
  /\ canintf = {CANINTF_RX0IF} /\ CANINTF_RX0IF \notin hw_canintf
  /\ tx_pending_map = {2}

\* the flag f of can.ctrlmode is configured
C22_Configured(f) == BitAnd(start.ctrlmode, f) # 0

(* C22: the value mcp2515_chip_start writes to CANCTRL has the mode of the  *)
(* control-mode flags, loopback before listen-only before normal, and has   *)
(* CANCTRL_OSM, bit 3, when the one-shot flag is configured.                *)
C22_ModeWritten ==
  start.stage \in {"poll", "started"} =>
    /\ BitAnd(start.mode, CANCTRL_REQOP_MASK) =
         (IF C22_Configured(CAN_CTRLMODE_LOOPBACK)
            THEN CANCTRL_REQOP_LOOPBACK
          ELSE IF C22_Configured(CAN_CTRLMODE_LISTENONLY)
            THEN CANCTRL_REQOP_LISTEN_ONLY
          ELSE CANCTRL_REQOP_NORMAL)
    /\ C22_Configured(CAN_CTRLMODE_ONE_SHOT) =>
         BitAnd(start.mode, 2^3) # 0

\* the frames that wait: each Pending slot is in accept_order once
C23_Waiting ==
  /\ {accept_order[k] : k \in 1 .. Len(accept_order)} = tx_pending_map
  /\ Len(accept_order) = Cardinality(tx_pending_map)

\* the waiting frames were taken in the order of their slots
C23_Ascending ==
  \A k \in 1 .. Len(accept_order) - 1 : accept_order[k] < accept_order[k + 1]

(* C23 as stated: LoadTxSlot is issued in the order in which the frames     *)
(* were taken: for a frame that waited when it is the one that has waited   *)
(* longest, and for a frame that did not wait when no frame waits.          *)
C23_Fifo ==
  [][\A i \in Slots :
       LoadIssued(i) =>
         IF i \in tx_pending_map THEN i = Head(accept_order)
         ELSE accept_order = <<>>]_vars

C23_Step ==
  \A i \in Slots :
    LoadIssued(i) =>
      IF i \in tx_pending_map
        THEN /\ \A j \in tx_pending_map \ {i} : j > i
             /\ C23_Ascending => i = Head(accept_order)
             /\ accept_order' = SelectSeq(accept_order, LAMBDA x : x # i)
        ELSE /\ mcp2515_start_xmit /\ busy = 0
             /\ accept_order = <<>>

(* C23, amended: a frame that did not wait is loaded only when no frame     *)
(* waits, and of the frames that wait the one in the lowest slot is loaded  *)
(* first.  That is the order in which they were taken as long as they were  *)
(* taken in the order of their slots; a frame taken into a lower slot that  *)
(* was freed while a higher slot waits is loaded before the frame of the    *)
(* higher slot.                                                             *)
C23_LowestFirst == []C23_Waiting /\ [][C23_Step]_vars

\* slot 2 has waited since before slot 0 was freed and took its next frame,
\* and the ReadStatus whose completion loads slot 0 is in flight
C23_Witness ==
  /\ accept_order = <<2, 0>>
  /\ complete = "read_flags" /\ outstanding = 1 /\ hw_canintf = {}

(* C24: when mcp2515_open has brought the interface up, the first time and  *)
(* after any mcp2515_close, every slot is Free, no slot is Pending, and     *)
(* busy, the deferred-interrupt flag and netif_queue_stopped are clear.     *)
C24_CleanSession ==
  [][(mcp2515_open /\ dev_up') =>
       /\ tx_busy_map' = {} /\ tx_pending_map' = {}
       /\ busy' = 0 /\ interrupt' = 0 /\ netif_queue_stopped' = 0]_vars

\* a step that writes priv->transfer.tx_buf for an asynchronous exchange:
\* every function that fills the buffer sets message.complete and calls
\* spi_async
C25_AsyncWrite == Submits \/ complete' # complete

C25_Step ==
  /\ C25_AsyncWrite =>
       \/ WakeStep /\ busy = 0 /\ busy' = 1
       \/ CompletionStep /\ busy = 1
  /\ (mcp2515_open /\ dev_up') => outstanding = 0

(* C25: priv->transfer.tx_buf is filled for an asynchronous exchange only   *)
(* by the wake source that takes busy from 0 to 1 and by a completion       *)
(* handler running with busy set; and mcp2515_chip_start, which fills the   *)
(* same buffer for its synchronous writes, runs in mcp2515_open only when   *)
(* no asynchronous exchange is outstanding.                                 *)
C25_BufferOwner == [][C25_Step]_vars

\* slot i holds a frame that has not been issued LoadTxSlot, RequestSend
C26_ToLoad(i) == skb[i] # NULL /\ i \in tx_busy_map /\ nload[i] = 0
C26_ToSend(i) == skb[i] # NULL /\ i \in tx_busy_map /\ nrts[i] = 0

\* a step of a wake source or of what raises one
C26_WakeEvent ==
  \/ WakeStep \/ HwRxFrame \/ HwTxDone
  \/ mcp2515_open \/ mcp2515_close

=============================================================================
